---------------------------- MODULE Spec2Model ----------------------------
(***************************************************************************)
(* A model of unpackcgi.py, a JFFS2 image extractor.                       *)
(*                                                                         *)
(*   scan_fs  walks the image buffer from magic to magic, checks the       *)
(*            header CRC, parses dirent and inode nodes into the           *)
(*            aggregate fs = {dirents, inodes};                            *)
(*   dump_fs  rebuilds each dirent's path by walking pino links and        *)
(*            materialises directories, files and symlinks on the host.    *)
(*                                                                         *)
(* The image is a sequence of bytes (0..255) with the real node layout     *)
(* (12-byte header, 40-byte dirent, 68-byte inode, little endian), the     *)
(* CRC is the CRC-32 the code computes, and positions are 0-based as in    *)
(* the Python source.  Spec is scan_fs run on an image; SpecCodec is       *)
(* scan_fs run on images with compressed payloads; SpecDump is dump_fs     *)
(* run on an aggregate and a host file system; SpecPad is PAD called on    *)
(* its own.                                                                *)
(***************************************************************************)
EXTENDS Integers, Sequences, FiniteSets, TLC

VARIABLES
    content,    \* scan_fs: the image buffer
    pos,        \* scan_fs: the cursor
    unknown,    \* scan_fs: the header unpacked at pos (<< >> before the first)
    spc,        \* scan_fs: "find" (line 217), "node" (line 227), "done" (returned), "raised"
    fs,         \* the aggregate: [dirents: sequence in dict order, inodes: ino -> sequence]
    accepted,   \* history: the nodes taken so far, a set of [at, totlen, kind, rec]
    rejected,   \* history: the positions whose header CRC failed
    crcTable,   \* the CRC library's static tables (never change): [crc, xor]
    hostFs,     \* the host file system: location -> object
    target,     \* dump_fs: the output directory as given
    node_dict,  \* dump_fs: ino -> dirent with its fragments
    di,         \* dump_fs: the index of the dirent of the outer loop
    ii,         \* dump_fs: the index of the fragment of the inner loop
    full_path,  \* dump_fs: the path of the current dirent
    dpc,        \* dump_fs: "idle", "begin", "dirent" (line 155), "inode" (line 173), "done",
                \*          "raised"
    log,        \* history: the changes made to the host, [d, i, op, loc]
    checks,     \* history: the calls of is_safe_path that returned, [d, safe, at]: the
                \*          dirent, the result, and the length of log at the call
    pad         \* PAD called on its own: [x, out, called], x and out as [hi, lo]

scanVars == <<content, pos, unknown, spc, fs, accepted, rejected, crcTable>>
dumpVars == <<hostFs, target, node_dict, di, ii, full_path, dpc, log, checks>>
padVars == <<pad>>

-----------------------------------------------------------------------------
(* Bounds of the model *)

\* the number of palette segments an image is built from
MaxNodes == 3

-----------------------------------------------------------------------------
(* Integers, bytes, slices *)

Min(S) == CHOOSE x \in S : \A y \in S : x <= y
Max(S) == CHOOSE x \in S : \A y \in S : x >= y

\* a ^ b for bytes: bit k of the result is the low bit of (a >> k) + (b >> k)
XorBits(a, b) ==
      ((a + b) % 2)
    + 2 * (((a \div 2) + (b \div 2)) % 2)
    + 4 * (((a \div 4) + (b \div 4)) % 2)
    + 8 * (((a \div 8) + (b \div 8)) % 2)
    + 16 * (((a \div 16) + (b \div 16)) % 2)
    + 32 * (((a \div 32) + (b \div 32)) % 2)
    + 64 * (((a \div 64) + (b \div 64)) % 2)
    + 128 * (((a \div 128) + (b \div 128)) % 2)

\* a ^ b for half bytes, tabulated once, at start-up, into crcTable
XorTableValue == [i \in 1..16 |-> [j \in 1..16 |-> XorBits(i - 1, j - 1)]]

\* a ^ b for bytes, by the table
Xor(a, b) ==
    16 * crcTable.xor[(a \div 16) + 1][(b \div 16) + 1]
       + crcTable.xor[(a % 16) + 1][(b % 16) + 1]

\* Python's s[a:b] for 0 <= a, 0 <= b
Slice(s, a, b) ==
    LET hi == IF b < Len(s) THEN b ELSE Len(s)
    IN  IF a >= hi THEN << >> ELSE SubSeq(s, a + 1, hi)

Fill(n, b) == [i \in 1..n |-> b]
Zeros(n) == Fill(n, 0)

\* little-endian fields, as cstruct reads them (__byte_order__ = LITTLE_ENDIAN)
LE16(s, off) == s[off + 1] + 256 * s[off + 2]
\* (a jint32_t is read as an integer; the images of this model keep every parsed
\* 32-bit field below 2^31, the largest integer TLC has)
LE32(s, off) == s[off + 1] + 256 * s[off + 2] + 65536 * s[off + 3] + 16777216 * s[off + 4]
Enc16(v) == << v % 256, (v \div 256) % 256 >>
Enc32(v) == << v % 256, (v \div 256) % 256, (v \div 65536) % 256, (v \div 16777216) % 256 >>

-----------------------------------------------------------------------------
(* JFFS2 constants *)

JFFS2_OLD_MAGIC_BITMASK == 6532
JFFS2_MAGIC_BITMASK == 6533

JFFS2_COMPR_NONE == 0
JFFS2_COMPR_ZERO == 1
JFFS2_COMPR_ZLIB == 6
JFFS2_COMPR_LZO == 7
JFFS2_COMPR_LZMA == 8

JFFS2_FEATURE_INCOMPAT == 49152
JFFS2_NODE_ACCURATE == 8192

\* the three masks have no bit in common, so | is +
JFFS2_NODETYPE_DIRENT == JFFS2_FEATURE_INCOMPAT + JFFS2_NODE_ACCURATE + 1
JFFS2_NODETYPE_INODE == JFFS2_FEATURE_INCOMPAT + JFFS2_NODE_ACCURATE + 2

\* the file type bits of a mode, as Python's stat module has them
S_IFDIR == 16384
S_IFREG == 32768
S_IFLNK == 40960

\* stat.S_IFMT(mode): mode & 0o170000, bits 12 to 15
S_IFMT(mode) == ((mode \div 4096) % 16) * 4096
S_ISDIR(mode) == S_IFMT(mode) = S_IFDIR
S_ISREG(mode) == S_IFMT(mode) = S_IFREG
S_ISLNK(mode) == S_IFMT(mode) = S_IFLNK
\* stat.S_IMODE(mode): mode & 0o7777
S_IMODE(mode) == mode % 4096

\* sizes of the three cstruct layouts
HeaderSize == 12
DirentSize == 40
InodeSize == 68

-----------------------------------------------------------------------------
(* mtd_crc and PAD *)

\* A 32-bit CRC register is kept as its four bytes, least significant first (the
\* order in which the image stores it): TLC's integers end at 2^31 - 1.
Xor4(x, y) == << Xor(x[1], y[1]), Xor(x[2], y[2]), Xor(x[3], y[3]), Xor(x[4], y[4]) >>

\* One shift of the reflected CRC-32: the register moves right one bit and the
\* polynomial 0xEDB88320 (bytes 0x20 0x83 0xB8 0xED) is folded in when a 1 falls out.
CrcShift(c) ==
    LET s == << (c[1] \div 2) + (c[2] % 2) * 128, (c[2] \div 2) + (c[3] % 2) * 128,
                (c[3] \div 2) + (c[4] % 2) * 128, c[4] \div 2 >>
    IN  IF c[1] % 2 = 1
        THEN << XorBits(s[1], 32), XorBits(s[2], 131), XorBits(s[3], 184), XorBits(s[4], 237) >>
        ELSE s

RECURSIVE CrcShifts(_, _)
CrcShifts(c, n) ==
    IF n = 0 THEN c
    ELSE CHOOSE r \in { CrcShifts(d, n - 1) : d \in {CrcShift(c)} } : TRUE

\* The library's table: entry i + 1 is the byte i after 8 shifts.  It is computed
\* once, at start-up, into crcTable.
CrcTableValue == [i \in 1..256 |-> CrcShifts(<<i - 1, 0, 0, 0>>, 8)]

\* one byte into the register: table[(crc ^ b) & 0xFF] ^ (crc >> 8)
CrcByte(crc, b) ==
    CHOOSE r \in
        { << Xor(t[1], c[2]), Xor(t[2], c[3]), Xor(t[3], c[4]), t[4] >> :
          c \in {crc}, t \in {crcTable.crc[Xor(crc[1], b) + 1]} } : TRUE

\* the register after the bytes data[lo..hi]; the bytes are taken in order, the
\* range by halves
RECURSIVE CrcFrom(_, _, _, _)
CrcFrom(crc, data, lo, hi) ==
    IF lo > hi THEN crc
    ELSE IF lo = hi THEN CrcByte(crc, data[lo])
    ELSE CHOOSE r \in
            { CrcFrom(c, d, ((lo + hi) \div 2) + 1, hi) :
              c \in {CrcFrom(crc, data, lo, (lo + hi) \div 2)}, d \in {data} } : TRUE

\* (binascii.crc32(data, -1) ^ -1) & 0xFFFFFFFF: crc32(data, v) runs the register
\* from ~v and returns its complement, so with v = -1 the register starts at 0,
\* and the outer ^ -1 removes the final complement.
mtd_crc(data) ==
    CHOOSE r \in { CrcFrom(<<0, 0, 0, 0>>, d, 1, Len(d)) : d \in {data} } : TRUE

\* PAD rounding down: x & ~3
PadDown(x) == x - (x % 4)

\* (x + 3) & ~3: clear the two low bits of x + 3
PAD(x) == (x + 3) - ((x + 3) % 4)

\* PAD on an integer of any size, held as its halves: x = hi * 2^16 + lo with
\* lo < 2^16.  2^16 is a multiple of 4, so x + 3 and the two bits cleared are
\* those of lo, with a carry into hi when lo + 3 reaches 2^16.
PadWide(w) ==
    LET lo == PAD(w.lo)
    IN  IF lo >= 65536 THEN [hi |-> w.hi + 1, lo |-> lo - 65536]
        ELSE [hi |-> w.hi, lo |-> lo]

\* how many values are taken at each end of a half
PadSpan == 16

\* the arguments PAD is called with: values of the 32-bit range at the ends of
\* both halves, among them 0, 2^31 - 1, 2^31 and 2^32 - 1
PadInputs ==
    { [hi |-> hi, lo |-> lo] :
        hi \in {0, 1, 32767, 32768, 65535},
        lo \in (0 .. PadSpan - 1) \cup (65536 - PadSpan .. 65535) }

PadIdle == [x |-> [hi |-> 0, lo |-> 0], out |-> [hi |-> 0, lo |-> 0], called |-> FALSE]

\* PAD(x), lines 30-31
PadCall ==
    /\ ~pad.called
    /\ pad' = [pad EXCEPT !.out = PadWide(pad.x), !.called = TRUE]
    /\ UNCHANGED <<scanVars, dumpVars>>

-----------------------------------------------------------------------------
(* The codecs.  zlib, lzo and jefferson's lzma are libraries outside the       *)
(* repository; what the code relies on is that each either returns bytes or    *)
(* raises.  They are modelled by one small run-length format: a stream is a    *)
(* non-empty sequence of <<count, byte>> pairs; anything else is rejected.     *)

RECURSIVE RunLength(_, _)
RunLength(stream, i) ==
    IF i > Len(stream) THEN << >>
    ELSE Fill(stream[i], stream[i + 1]) \o RunLength(stream, i + 2)

\* zlib.decompress(node_data): the output length is the stream's own
ZlibDecompress(node_data) ==
    IF Len(node_data) = 0 \/ Len(node_data) % 2 = 1
    THEN [ok |-> FALSE, data |-> << >>]
    ELSE [ok |-> TRUE, data |-> RunLength(node_data, 1)]

\* lzo.decompress(node_data, False, dsize), jffs2_lzma.decompress(node_data, dsize):
\* dsize is the size of the output buffer
SizedDecompress(node_data, dsize) ==
    LET r == ZlibDecompress(node_data)
    IN  IF r.ok /\ Len(r.data) > dsize THEN [ok |-> FALSE, data |-> << >>] ELSE r

\* whether the codec of tag compr rejects node_data (raises)
CodecFails(compr, node_data, dsize) ==
    \/ compr = JFFS2_COMPR_ZLIB /\ ~ZlibDecompress(node_data).ok
    \/ compr \in {JFFS2_COMPR_LZO, JFFS2_COMPR_LZMA} /\ ~SizedDecompress(node_data, dsize).ok

\* Decompress with a handler that leaves the data empty when the codec raises
DecompressEmpty(compr, node_data, dsize) ==
    IF compr = JFFS2_COMPR_ZERO THEN Zeros(dsize)
    ELSE IF CodecFails(compr, node_data, dsize) THEN << >>
    ELSE IF compr = JFFS2_COMPR_ZLIB THEN ZlibDecompress(node_data).data
    ELSE IF compr \in {JFFS2_COMPR_LZO, JFFS2_COMPR_LZMA}
         THEN SizedDecompress(node_data, dsize).data
    ELSE node_data

\* the try block of Jffs2_raw_inode.unpack
Decompress(compr, node_data, dsize) ==
    LET r == IF compr = JFFS2_COMPR_ZLIB THEN ZlibDecompress(node_data)
             ELSE SizedDecompress(node_data, dsize)
    IN  IF compr = JFFS2_COMPR_NONE THEN node_data
        ELSE IF compr = JFFS2_COMPR_ZERO THEN Zeros(dsize)
        ELSE IF compr \in {JFFS2_COMPR_ZLIB, JFFS2_COMPR_LZO, JFFS2_COMPR_LZMA}
             THEN (IF r.ok THEN r.data ELSE Zeros(dsize))
        ELSE node_data

-----------------------------------------------------------------------------
(* The node decoder *)

\* cstruct.CStruct.unpack(self, data[:size]) raises struct.error when data holds
\* fewer than size bytes
UnpackRaises(data, size) == Len(data) < size

\* Jffs2_unknown_node.unpack, for Len(data) >= HeaderSize.  scan_fs reads nodetype
\* and totlen only when the CRC matches; where it does not they are left at 0
\* (four arbitrary bytes can exceed the integers TLC has).
UnknownUnpack(data) ==
    CHOOSE r \in
        { [magic         |-> LE16(data, 0),
           nodetype      |-> IF m THEN LE16(data, 2) ELSE 0,
           totlen        |-> IF m THEN LE32(data, 4) ELSE 0,
           hdr_crc       |-> Slice(data, 8, 12),
           hdr_crc_match |-> m] :
          m \in {mtd_crc(Slice(data, 0, HeaderSize - 4)) = Slice(data, 8, 12)} } : TRUE

\* Jffs2_raw_dirent.unpack, for Len(data) >= DirentSize
DirentUnpack(data, node_offset) ==
    LET nsize == data[29]
        name  == Slice(data, DirentSize, DirentSize + nsize)
    IN  [pino           |-> LE32(data, 12),
         version        |-> LE32(data, 16),
         ino            |-> LE32(data, 20),
         nsize          |-> nsize,
         type           |-> data[30],
         name           |-> name,
         node_offset    |-> node_offset,
         node_crc_match |-> mtd_crc(Slice(data, 0, DirentSize - 8)) = Slice(data, 32, 36),
         name_crc_match |-> mtd_crc(name) = Slice(data, 36, 40)]

\* Jffs2_raw_inode.unpack, for Len(data) >= InodeSize.  The record has the fields
\* of the struct and data; the method sets no CRC flag.
InodeUnpack(data) ==
    LET csize == LE32(data, 48)
        dsize == LE32(data, 52)
        compr == data[57]
        node_data == Slice(data, InodeSize, InodeSize + csize)
    IN  [ino      |-> LE32(data, 12),
         version  |-> LE32(data, 16),
         mode     |-> LE32(data, 20),
         isize    |-> LE32(data, 28),
         offset   |-> LE32(data, 44),
         csize    |-> csize,
         dsize    |-> dsize,
         compr    |-> compr,
         data_crc |-> Slice(data, 60, 64),
         node_crc |-> Slice(data, 64, 68),
         data     |-> Decompress(compr, node_data, dsize)]

-----------------------------------------------------------------------------
(* scan_fs *)

\* bytes.find(magic, start): the least index >= start, or -1
Find(buf, magic, start) ==
    LET m == Enc16(magic)
        S == {i \in start .. Len(buf) - 2 : buf[i + 1] = m[1] /\ buf[i + 2] = m[2]}
    IN  IF S = {} THEN -1 ELSE Min(S)

\* lines 217-223: the next magic of either kind, or -1
NextMagic(buf, start) ==
    LET idx     == Find(buf, JFFS2_MAGIC_BITMASK, start)
        idx_old == Find(buf, JFFS2_OLD_MAGIC_BITMASK, start)
    IN  IF idx = -1 /\ idx_old = -1 THEN -1
        ELSE IF idx = -1 \/ (idx_old # -1 /\ idx_old < idx) THEN idx_old
        ELSE idx

\* the index of the entry of key ino in the dict, 0 when absent
KeyIndex(dirents, ino) ==
    LET S == {k \in 1..Len(dirents) : dirents[k].ino = ino}
    IN  IF S = {} THEN 0 ELSE Min(S)

\* StoreDirent without the version test of line 238: the last dirent scanned wins
StoreDirentLast(dirents, dirent) ==
    LET k == KeyIndex(dirents, dirent.ino)
    IN  IF k = 0 THEN Append(dirents, dirent) ELSE [dirents EXCEPT ![k] = dirent]

\* lines 238-239; a dict keeps a key's place when its value is replaced
StoreDirent(dirents, dirent) ==
    LET k == KeyIndex(dirents, dirent.ino)
    IN  IF k = 0 THEN Append(dirents, dirent)
        ELSE IF dirents[k].version < dirent.version THEN [dirents EXCEPT ![k] = dirent]
        ELSE dirents

\* line 243: fs['inodes'].setdefault(inode.ino, []).append(inode)
StoreInode(inodes, inode) ==
    IF inode.ino \in DOMAIN inodes
    THEN [inodes EXCEPT ![inode.ino] = Append(@, inode)]
    ELSE [i \in DOMAIN inodes \cup {inode.ino} |->
             IF i = inode.ino THEN <<inode>> ELSE inodes[i]]

\* lines 217-220: no magic is left, the loop ends and fs is returned
ScanEnd ==
    /\ spc = "find"
    /\ NextMagic(content, pos) = -1
    /\ spc' = "done"
    /\ UNCHANGED <<content, pos, unknown, fs, accepted, rejected, crcTable>>
    /\ UNCHANGED <<dumpVars, padVars>>

\* lines 217-226: the cursor moves to the next magic and the header is unpacked
ScanFind ==
    /\ spc = "find"
    /\ \E idx \in {NextMagic(content, pos)} :
        /\ idx # -1
        /\ \E hdr \in {Slice(content, idx, idx + HeaderSize)} :
            /\ ~UnpackRaises(hdr, HeaderSize)
            /\ unknown' = UnknownUnpack(hdr)
        /\ pos' = idx
    /\ spc' = "node"
    /\ UNCHANGED <<content, fs, accepted, rejected, crcTable>>
    /\ UNCHANGED <<dumpVars, padVars>>

\* line 226: fewer than 12 bytes follow the magic, unknown.unpack raises
ScanRaiseHeader ==
    /\ spc = "find"
    /\ \E idx \in {NextMagic(content, pos)} :
        /\ idx # -1
        /\ UnpackRaises(Slice(content, idx, idx + HeaderSize), HeaderSize)
        /\ pos' = idx
    /\ unknown' = << >>     \* line 225: a fresh object, which unpack did not fill
    /\ spc' = "raised"
    /\ UNCHANGED <<content, fs, accepted, rejected, crcTable>>
    /\ UNCHANGED <<dumpVars, padVars>>

\* line 233: content[pos:pos+totlen]
NodeData == Slice(content, pos, pos + unknown.totlen)

\* ScanBadHeader stepping over a whole aligned word instead of one byte
ScanBadHeaderWord ==
    /\ spc = "node"
    /\ ~unknown.hdr_crc_match
    /\ pos' = pos + 4
    /\ rejected' = rejected \cup {pos}
    /\ spc' = "find"
    /\ UNCHANGED <<content, unknown, fs, accepted, crcTable>>
    /\ UNCHANGED <<dumpVars, padVars>>

\* lines 227-229: the header CRC does not match
ScanBadHeader ==
    /\ spc = "node"
    /\ ~unknown.hdr_crc_match
    /\ pos' = pos + 1
    /\ rejected' = rejected \cup {pos}
    /\ spc' = "find"
    /\ UNCHANGED <<content, unknown, fs, accepted, crcTable>>
    /\ UNCHANGED <<dumpVars, padVars>>

\* lines 235-239 and 244
ScanDirent ==
    /\ spc = "node"
    /\ unknown.hdr_crc_match
    /\ unknown.nodetype = JFFS2_NODETYPE_DIRENT
    /\ \E node_data \in {NodeData} :
        /\ ~UnpackRaises(node_data, DirentSize)
        /\ \E dirent \in {DirentUnpack(node_data, pos)} :
            /\ fs' = [fs EXCEPT !.dirents = StoreDirent(@, dirent)]
            /\ accepted' = accepted \cup
                  {[at |-> pos, totlen |-> unknown.totlen, kind |-> "dirent", rec |-> dirent]}
    /\ pos' = pos + PAD(unknown.totlen)
    /\ spc' = "find"
    /\ UNCHANGED <<content, unknown, rejected, crcTable>>
    /\ UNCHANGED <<dumpVars, padVars>>

\* lines 240-244
ScanInode ==
    /\ spc = "node"
    /\ unknown.hdr_crc_match
    /\ unknown.nodetype = JFFS2_NODETYPE_INODE
    /\ \E node_data \in {NodeData} :
        /\ ~UnpackRaises(node_data, InodeSize)
        /\ \E inode \in {InodeUnpack(node_data)} :
            /\ fs' = [fs EXCEPT !.inodes = StoreInode(@, inode)]
            /\ accepted' = accepted \cup
                  {[at |-> pos, totlen |-> unknown.totlen, kind |-> "inode", rec |-> inode]}
    /\ pos' = pos + PAD(unknown.totlen)
    /\ spc' = "find"
    /\ UNCHANGED <<content, unknown, rejected, crcTable>>
    /\ UNCHANGED <<dumpVars, padVars>>

\* line 244 alone: any other node type is passed over
ScanOther ==
    /\ spc = "node"
    /\ unknown.hdr_crc_match
    /\ unknown.nodetype \notin {JFFS2_NODETYPE_DIRENT, JFFS2_NODETYPE_INODE}
    /\ pos' = pos + PAD(unknown.totlen)
    /\ accepted' = accepted \cup
          {[at |-> pos, totlen |-> unknown.totlen, kind |-> "other", rec |-> << >>]}
    /\ spc' = "find"
    /\ UNCHANGED <<content, unknown, fs, rejected, crcTable>>
    /\ UNCHANGED <<dumpVars, padVars>>

\* lines 237 and 242: content[pos:pos+totlen] is shorter than the fixed part of
\* the dirent or inode, unpack raises; scan_fs has no handler
ScanRaiseBody ==
    /\ spc = "node"
    /\ unknown.hdr_crc_match
    /\ \/ /\ unknown.nodetype = JFFS2_NODETYPE_DIRENT
          /\ UnpackRaises(NodeData, DirentSize)
       \/ /\ unknown.nodetype = JFFS2_NODETYPE_INODE
          /\ UnpackRaises(NodeData, InodeSize)
    /\ spc' = "raised"
    /\ UNCHANGED <<content, pos, unknown, fs, accepted, rejected, crcTable>>
    /\ UNCHANGED <<dumpVars, padVars>>

-----------------------------------------------------------------------------
(* Images.  An image is up to MaxNodes segments of the palette followed by a   *)
(* tail; the builders write a node as mkfs.jffs2 lays it out.                  *)

Flip(crc, ok) == IF ok THEN crc ELSE Xor4(crc, <<1, 0, 0, 0>>)

\* the 12-byte common header with its CRC over the first 8 bytes
MkHeader(magic, nodetype, totlen) ==
    LET h == Enc16(magic) \o Enc16(nodetype) \o Enc32(totlen)
    IN  h \o mtd_crc(h)

\* a dirent node of the given totlen; nodeOk, nameOk: whether the body CRCs match
MkDirent(pino, version, ino, name, type, totlen, nodeOk, nameOk) ==
    LET first == MkHeader(JFFS2_MAGIC_BITMASK, JFFS2_NODETYPE_DIRENT, totlen)
                 \o Enc32(pino) \o Enc32(version) \o Enc32(ino) \o Enc32(0)
                 \o << Len(name), type, 0, 0 >>
    IN  first \o Flip(mtd_crc(first), nodeOk) \o Flip(mtd_crc(name), nameOk) \o name

\* an inode node of the given totlen; crcOk: whether data_crc and node_crc match
MkInode(ino, version, mode, isize, offset, csize, dsize, compr, payload, totlen, crcOk) ==
    LET first == MkHeader(JFFS2_MAGIC_BITMASK, JFFS2_NODETYPE_INODE, totlen)
                 \o Enc32(ino) \o Enc32(version) \o Enc32(mode) \o Enc16(0) \o Enc16(0)
                 \o Enc32(isize) \o Enc32(0) \o Enc32(0) \o Enc32(0)
                 \o Enc32(offset) \o Enc32(csize) \o Enc32(dsize)
                 \o << compr, 0 >> \o Enc16(0)
                 \o Flip(mtd_crc(payload), crcOk)
    IN  first \o Flip(mtd_crc(Slice(first, 0, InodeSize - 8)), crcOk) \o payload

\* a node followed by the padding to the next 4-byte boundary
Padded(node) == node \o Zeros(PAD(Len(node)) - Len(node))

ModeReg == S_IFREG + 420    \* 0100644
ModeDir == S_IFDIR + 493    \* 040755
ModeLnk == S_IFLNK + 511    \* 0120777
ModeFifo == 4096 + 420      \* 010644

\* JFFS2_NODETYPE_CLEANMARKER, 0x2003: a node type scan_fs does not consume
NodetypeCleanmarker == JFFS2_NODE_ACCURATE + 3

SegDirentA  == Padded(MkDirent(1, 1, 2, <<97>>, 8, 41, TRUE, TRUE))
SegDirentB  == Padded(MkDirent(1, 2, 2, <<98>>, 8, 41, TRUE, TRUE))
SegDeletion == Padded(MkDirent(1, 3, 0, <<97>>, 8, 41, TRUE, TRUE))
SegDirentBadCrc == Padded(MkDirent(1, 1, 3, <<100>>, 8, 41, FALSE, FALSE))
SegInode    == Padded(MkInode(2, 1, ModeReg, 2, 0, 2, 2, JFFS2_COMPR_NONE,
                              <<120, 121>>, 70, TRUE))
\* an inode whose payload holds the magic, and whose data_crc and node_crc are wrong
SegInodeBadCrc == Padded(MkInode(2, 2, ModeReg, 4, 0, 4, 4, JFFS2_COMPR_NONE,
                              <<133, 25, 1, 2>>, 72, FALSE))
\* the old magic, a byte, the magic: 5 bytes that are no header, so that what
\* follows starts 2 bytes after a magic and is not 4-byte aligned
SegJunk     == <<132, 25, 9, 133, 25>>
SegCleanmarker == MkHeader(JFFS2_MAGIC_BITMASK, NodetypeCleanmarker, 12)
\* a header with a matching CRC and totlen 0
SegZeroTotlen  == MkHeader(JFFS2_OLD_MAGIC_BITMASK, NodetypeCleanmarker, 0)
\* a dirent header with a matching CRC whose totlen ends before the fixed body
SegDirentShort == MkHeader(JFFS2_MAGIC_BITMASK, JFFS2_NODETYPE_DIRENT, 20) \o Zeros(8)
\* a complete inode whose totlen reaches past the end of any image of the model
SegInodeLong == Padded(MkInode(3, 1, ModeReg, 2, 0, 2, 2, JFFS2_COMPR_NONE,
                              <<120, 121>>, 4000, TRUE))

Palette ==
    << SegDirentA, SegDirentB, SegDeletion, SegDirentBadCrc, SegInode, SegInodeBadCrc,
       SegJunk, SegCleanmarker, SegZeroTotlen, SegDirentShort, SegInodeLong >>

\* what the image ends with: nothing, or an inode node cut off by the end of the
\* image after 20 of its 72 bytes
Tails ==
    << << >>,
       MkHeader(JFFS2_MAGIC_BITMASK, JFFS2_NODETYPE_INODE, 72) \o Enc32(2) \o Enc32(1) >>

\* inodes stored compressed: one the codec accepts ("xx"), one zlib rejects, and
\* one whose output is longer than the dsize handed to lzo
SegInodeZlib    == Padded(MkInode(2, 1, ModeReg, 2, 0, 2, 2, JFFS2_COMPR_ZLIB,
                                  <<2, 120>>, 70, TRUE))
SegInodeZlibBad == Padded(MkInode(2, 2, ModeReg, 3, 0, 1, 3, JFFS2_COMPR_ZLIB,
                                  <<7>>, 69, TRUE))
SegInodeLzoBad  == Padded(MkInode(3, 1, ModeReg, 2, 0, 2, 2, JFFS2_COMPR_LZO,
                                  <<3, 120>>, 70, TRUE))

\* the segments of the images with compressed payloads
CodecPalette ==
    << SegDirentA, SegInodeZlib, SegInodeZlibBad, SegInodeLzoBad,
       SegJunk, SegCleanmarker, SegDirentShort >>

RECURSIVE Concat(_, _, _)
Concat(pal, picks, i) ==
    IF i > Len(picks) THEN << >> ELSE pal[picks[i]] \o Concat(pal, picks, i + 1)

\* the images built of the segments pal and the endings tails
Images(pal, tails) ==
    { Concat(pal, picks, 1) \o tails[t] :
        picks \in UNION { [1..n -> 1..Len(pal)] : n \in 0..MaxNodes },
        t \in 1..Len(tails) }

-----------------------------------------------------------------------------
(* Path strings.  A string is held as str.split("/") gives it: the sequence of *)
(* its segments, so "out/a" is <<"out", "a">>, "/x" is <<"", "x">>, "out/" is  *)
(* <<"out", "">> and the empty string is <<"">>.                               *)

\* the characters the names of the model are written in
Chr(b) ==
    CASE b = 46  -> "."
      [] b = 97  -> "a"
      [] b = 98  -> "b"
      [] b = 99  -> "c"
      [] b = 101 -> "e"
      [] b = 102 -> "f"
      [] b = 116 -> "t"
      [] b = 120 -> "x"
      [] OTHER   -> "?"

\* a segment that holds the character U+0000 (byte 0): every such segment is
\* written as this one, no system call takes a path or a link target with it
NulSegment == "\\0"

\* the text of bytes[i..], split at "/" (byte 47)
RECURSIVE SplitFrom(_, _)
SplitFrom(bytes, i) ==
    IF i > Len(bytes) THEN <<"">>
    ELSE CHOOSE r \in
            { IF bytes[i] = 47 THEN <<"">> \o rest
              ELSE IF bytes[i] = 0 \/ Head(rest) = NulSegment
                   THEN <<NulSegment>> \o Tail(rest)
              ELSE <<Chr(bytes[i]) \o Head(rest)>> \o Tail(rest) :
              rest \in {SplitFrom(bytes, i + 1)} } : TRUE

\* a system call given this path raises ValueError (embedded null byte)
EmbeddedNull(path) == \E k \in 1..Len(path) : path[k] = NulSegment

\* bytes.decode(errors="ignore") of a name: a byte that is no ASCII character
\* starts no valid sequence in the names of the model and is dropped
DecodeIgnore(bytes) == SplitFrom(SelectSeq(bytes, LAMBDA b : b < 128), 1)

\* os.fsdecode of the bytes handed to os.symlink
FsDecode(bytes) == SplitFrom(bytes, 1)

\* os.path.isabs
IsAbs(p) == Len(p) >= 2 /\ p[1] = ""

\* os.path.join(a, b)
Join(a, b) ==
    IF IsAbs(b) THEN b
    ELSE IF a[Len(a)] = "" THEN SubSeq(a, 1, Len(a) - 1) \o b
    ELSE a \o b

\* os.path.join(a, *parts[lo..hi]); the parts are taken in order, the range by
\* halves
RECURSIVE JoinAll(_, _, _, _)
JoinAll(a, parts, lo, hi) ==
    IF lo > hi THEN a
    ELSE IF lo = hi THEN Join(a, parts[lo])
    ELSE CHOOSE r \in
            { JoinAll(j, ps, ((lo + hi) \div 2) + 1, hi) :
              j \in {JoinAll(a, parts, lo, (lo + hi) \div 2)}, ps \in {parts} } : TRUE

\* os.path.dirname
Dirname(p) ==
    LET n == Len(p)
        S == {k \in 1 .. n - 1 : p[k] # ""}
    IN  IF n = 1 THEN <<"">>
        ELSE IF S = {} THEN SubSeq(p, 1, n - 1) \o <<"">>
        ELSE SubSeq(p, 1, Max(S))

-----------------------------------------------------------------------------
(* The host file system.  A location is the sequence of the names from the     *)
(* root to an object, <<>> being the root; hostFs maps the locations that      *)
(* exist to their objects.  Cwd is the working directory of the process.       *)

Cwd == <<"w">>

\* bound on the symbolic links one lookup follows (the kernel's is 40)
MaxLinks == 4

DirObj == [kind |-> "dir", data |-> << >>, mode |-> 493, target |-> <<"">>]
FileObj(data, mode) == [kind |-> "file", data |-> data, mode |-> mode, target |-> <<"">>]
LnkObj(src) == [kind |-> "lnk", data |-> << >>, mode |-> 511, target |-> src]

Parent(loc) == IF loc = << >> THEN << >> ELSE SubSeq(loc, 1, Len(loc) - 1)

IsPrefix(a, b) == Len(a) <= Len(b) /\ SubSeq(b, 1, Len(a)) = a

\* h with the object obj at loc
Put(h, loc, obj) == (loc :> obj) @@ h
\* h without loc
Without(h, loc) == [l \in DOMAIN h \ {loc} |-> h[l]] @@ << >>

\* The kernel's path lookup from the directory cur: err when a component is
\* missing or no directory, or the links exceed MaxLinks; otherwise the location
\* the path names and whether an object is there.  follow: whether a link in the
\* last component is followed.  LookupStep takes the first component; Lookup
\* first passes the components that name directories to enter.
RECURSIVE Lookup(_, _, _, _, _)
LookupStep(h, cur, comps, follow, fuel) ==
    LET c    == Head(comps)
        rest == Tail(comps)
        loc  == Append(cur, c)
        fail == [err |-> TRUE, loc |-> << >>, exists |-> FALSE]
    IN  IF comps = << >> THEN [err |-> FALSE, loc |-> cur, exists |-> TRUE]
        ELSE IF h[cur].kind # "dir" THEN fail
        ELSE IF c = "" \/ c = "." THEN Lookup(h, cur, rest, follow, fuel)
        ELSE IF c = ".." THEN Lookup(h, Parent(cur), rest, follow, fuel)
        ELSE IF loc \notin DOMAIN h
             THEN IF \A k \in 1..Len(rest) : rest[k] = ""
                  THEN [err |-> FALSE, loc |-> loc, exists |-> FALSE]
                  ELSE fail
        ELSE IF h[loc].kind = "lnk" /\ (rest # << >> \/ follow)
             THEN IF fuel = 0 \/ h[loc].target = <<"">> THEN fail
                  ELSE Lookup(h, IF IsAbs(h[loc].target) THEN << >> ELSE cur,
                              h[loc].target \o rest, follow, fuel - 1)
        ELSE Lookup(h, loc, rest, follow, fuel)

Lookup(h, cur, comps, follow, fuel) ==
    CHOOSE r \in
        { LookupStep(h, c \o SubSeq(cs, 1, n), SubSeq(cs, n + 1, Len(cs)), follow, fuel) :
          c \in {cur}, cs \in {comps},
          n \in { Min({k \in 0..Len(comps) :
                        \/ k = Len(comps)
                        \/ comps[k + 1] \in {"", ".", ".."}
                        \/ cur \o SubSeq(comps, 1, k + 1) \notin DOMAIN h
                        \/ h[cur \o SubSeq(comps, 1, k + 1)].kind # "dir"}) } } : TRUE

Resolve(h, path, follow) ==
    Lookup(h, IF IsAbs(path) THEN << >> ELSE Cwd, path, follow, MaxLinks)

\* os.path.realpath (posixpath._joinrealpath, strict=False): links are followed,
\* a component that is missing is kept as it is written.  RealStep takes the
\* first component; RealFrom first passes the components that are names of
\* anything but links.
RECURSIVE RealFrom(_, _, _, _)
RealStep(h, cur, comps, fuel) ==
    LET c    == Head(comps)
        rest == Tail(comps)
        loc  == Append(cur, c)
    IN  IF comps = << >> THEN cur
        ELSE IF c = "" \/ c = "." THEN RealFrom(h, cur, rest, fuel)
        ELSE IF c = ".." THEN RealFrom(h, Parent(cur), rest, fuel)
        ELSE IF loc \in DOMAIN h /\ h[loc].kind = "lnk" /\ fuel > 0
             THEN RealFrom(h, IF IsAbs(h[loc].target) THEN << >> ELSE cur,
                           h[loc].target \o rest, fuel - 1)
        ELSE RealFrom(h, loc, rest, fuel)

RealFrom(h, cur, comps, fuel) ==
    CHOOSE r \in
        { RealStep(h, c \o SubSeq(cs, 1, n), SubSeq(cs, n + 1, Len(cs)), fuel) :
          c \in {cur}, cs \in {comps},
          n \in { Min({k \in 0..Len(comps) :
                        \/ k = Len(comps)
                        \/ comps[k + 1] \in {"", ".", ".."}
                        \/ /\ cur \o SubSeq(comps, 1, k + 1) \in DOMAIN h
                           /\ h[cur \o SubSeq(comps, 1, k + 1)].kind = "lnk"}) } } : TRUE

Realpath(h, path) == RealFrom(h, IF IsAbs(path) THEN << >> ELSE Cwd, path, MaxLinks)

\* os.path.realpath raises ValueError: os.lstat is called for every component
\* but "", "." and "..", and posixpath catches OSError only
RealpathRaises(path) == EmbeddedNull(path)

\* is_safe_path, where neither realpath raises: commonpath([base]) is base, and
\* commonpath([base, path]) is the components the two absolute paths start with
\* in common
is_safe_path(h, base_dir, path) == IsPrefix(Realpath(h, base_dir), Realpath(h, path))

\* os.path.exists and os.path.isdir follow links
Exists(h, path) ==
    \E r \in {Resolve(h, path, TRUE)} : ~r.err /\ r.exists
IsDir(h, path) ==
    \E r \in {Resolve(h, path, TRUE)} : ~r.err /\ r.exists /\ h[r.loc].kind = "dir"

(* A file operation takes and gives a record st: h the file system, ev the     *)
(* changes made so far (what was done and where), exc the exception raised,    *)
(* "" for none.  After an exception nothing more is done.                      *)

Raise(st, exc) == [st EXCEPT !.exc = exc]
Did(st, h, op, loc) == [st EXCEPT !.h = h, !.ev = Append(@, [op |-> op, loc |-> loc])]

\* os.remove
RemoveAt(st, r) ==
    IF r.err \/ ~r.exists THEN Raise(st, "FileNotFoundError")
    ELSE IF st.h[r.loc].kind = "dir" THEN Raise(st, "IsADirectoryError")
    ELSE Did(st, Without(st.h, r.loc), "remove", r.loc)
Remove(st, path) ==
    IF st.exc # "" THEN st
    ELSE CHOOSE out \in { RemoveAt(s, Resolve(s.h, path, FALSE)) : s \in {st} } : TRUE

\* os.mkdir
MkdirAt(st, r) ==
    IF r.err THEN Raise(st, "FileNotFoundError")
    ELSE IF r.exists THEN Raise(st, "FileExistsError")
    ELSE Did(st, Put(st.h, r.loc, DirObj), "mkdir", r.loc)
Mkdir(st, path) ==
    IF st.exc # "" THEN st
    ELSE CHOOSE out \in { MkdirAt(s, Resolve(s.h, path, FALSE)) : s \in {st} } : TRUE

\* os.makedirs(name), exist_ok=False
RECURSIVE Makedirs(_, _)
MakedirsStep(st, name) ==
    LET tail0 == name[Len(name)]
        head  == IF tail0 = "" THEN Dirname(Dirname(name)) ELSE Dirname(name)
        tail  == IF tail0 = "" THEN Dirname(name)[Len(Dirname(name))] ELSE tail0
        up    == IF head # <<"">> /\ tail # "" /\ ~Exists(st.h, head)
                 THEN Makedirs(st, head) ELSE st
    IN  CHOOSE out \in
            { IF s.exc \notin {"", "FileExistsError"} THEN s
              ELSE IF tail = "." THEN [s EXCEPT !.exc = ""]
              ELSE Mkdir([s EXCEPT !.exc = ""], name) : s \in {up} } : TRUE
Makedirs(st, name) ==
    IF st.exc # "" THEN st
    ELSE CHOOSE out \in { MakedirsStep(s, n) : s \in {st}, n \in {name} } : TRUE

\* f.seek(offset); f.write(data) on the bytes of an open file
WriteAt(file, offset, data) ==
    IF data = << >> THEN file
    ELSE [i \in 1 .. Max({Len(file), offset + Len(data)}) |->
             IF i > offset /\ i <= offset + Len(data) THEN data[i - offset]
             ELSE IF i <= Len(file) THEN file[i]
             ELSE 0]

RECURSIVE WriteChunks(_, _, _)
WriteChunks(file, chunks, i) ==
    IF i > Len(chunks) THEN file
    ELSE CHOOSE r \in
            { WriteChunks(f, chunks, i + 1) :
              f \in {WriteAt(file, chunks[i].offset, chunks[i].data)} } : TRUE

\* open(path, 'wb'), the writes of the with block, and the close: the file is
\* created where the path leads, or emptied; its mode stays if it existed
OpenWriteAt(st, r, chunks) ==
    IF r.err THEN Raise(st, "FileNotFoundError")
    ELSE IF r.exists /\ st.h[r.loc].kind = "dir" THEN Raise(st, "IsADirectoryError")
    ELSE Did(st,
             Put(st.h, r.loc,
                 FileObj(WriteChunks(<< >>, chunks, 1),
                         IF r.exists THEN st.h[r.loc].mode ELSE 420)),
             "write", r.loc)
OpenWrite(st, path, chunks) ==
    IF st.exc # "" THEN st
    ELSE CHOOSE out \in { OpenWriteAt(s, Resolve(s.h, path, TRUE), chunks) : s \in {st} } : TRUE

\* os.chmod
ChmodAt(st, r, mode) ==
    IF r.err \/ ~r.exists THEN Raise(st, "FileNotFoundError")
    ELSE Did(st, [st.h EXCEPT ![r.loc].mode = mode], "chmod", r.loc)
Chmod(st, path, mode) ==
    IF st.exc # "" THEN st
    ELSE CHOOSE out \in { ChmodAt(s, Resolve(s.h, path, TRUE), mode) : s \in {st} } : TRUE

\* os.symlink(src, dst)
SymlinkAt(st, src, r) ==
    IF EmbeddedNull(src) THEN Raise(st, "ValueError")
    ELSE IF r.err \/ src = <<"">> THEN Raise(st, "FileNotFoundError")
    ELSE IF r.exists THEN Raise(st, "FileExistsError")
    ELSE Did(st, Put(st.h, r.loc, LnkObj(src)), "symlink", r.loc)
Symlink(st, src, dst) ==
    IF st.exc # "" THEN st
    ELSE CHOOSE out \in { SymlinkAt(s, src, Resolve(s.h, dst, FALSE)) : s \in {st} } : TRUE

\* ensure_dir, lines 134-140: the paths the second loop visits
Parts(path) ==
    LET named == SelectSeq(path, LAMBDA part : part # "")
    IN  [k \in 1..Len(named) |-> SubSeq(named, 1, k)]

\* ensure_dir, lines 143-147: one round of the second loop
EnsurePart(st, part_path) ==
    CHOOSE out \in
        { IF s.exc = "" /\ ~Exists(s.h, part_path) THEN Mkdir(s, part_path) ELSE s :
          s \in { IF Exists(st.h, part_path) /\ ~IsDir(st.h, part_path)
                  THEN Remove(st, part_path) ELSE st } } : TRUE

\* the rounds lo..hi of the second loop; the rounds are taken in order, the range
\* by halves
RECURSIVE EnsureParts(_, _, _, _)
EnsureParts(st, parts, lo, hi) ==
    IF lo > hi \/ st.exc # "" THEN st
    ELSE IF lo = hi THEN EnsurePart(st, parts[lo])
    ELSE CHOOSE out \in
            { EnsureParts(s, ps, ((lo + hi) \div 2) + 1, hi) :
              s \in {EnsureParts(st, parts, lo, (lo + hi) \div 2)}, ps \in {parts} } : TRUE

ensure_dir(st, path) ==
    IF st.exc # "" THEN st
    ELSE CHOOSE out \in
            { EnsureParts(s, ps, 1, Len(ps)) : s \in {st}, ps \in {Parts(path)} } : TRUE

-----------------------------------------------------------------------------
(* dump_fs *)

\* fs['inodes'].get(ino, [])
InodesOf(inodes, ino) == IF ino \in DOMAIN inodes THEN inodes[ino] ELSE << >>

\* lines 150-153: every dirent of the dict gets its fragments and is entered
\* under its ino
NodeDict(f) ==
    [ino \in {f.dirents[k].ino : k \in 1..Len(f.dirents)} |->
        LET dirent == f.dirents[KeyIndex(f.dirents, ino)]
        IN  [pino   |-> dirent.pino,
             ino    |-> dirent.ino,
             name   |-> dirent.name,
             inodes |-> InodesOf(f.inodes, ino)]]

\* range(100) of line 159
WalkBound == 100

\* lines 160-164: one round of the walk.  w is [pino, path_parts, broke].
WalkRound(nd, w) ==
    IF w.broke \/ w.pino \notin DOMAIN nd THEN [w EXCEPT !.broke = TRUE]
    ELSE [pino       |-> nd[w.pino].pino,
          path_parts |-> Append(w.path_parts, DecodeIgnore(nd[w.pino].name)),
          broke      |-> FALSE]

\* lines 159-164: the rounds lo..hi of the walk; the rounds are taken in order,
\* the range by halves
RECURSIVE WalkUp(_, _, _, _)
WalkUp(nd, w, lo, hi) ==
    IF lo > hi THEN w
    ELSE IF lo = hi THEN CHOOSE r \in { WalkRound(nd, v) : v \in {w} } : TRUE
    ELSE CHOOSE r \in
            { WalkUp(nd, v, ((lo + hi) \div 2) + 1, hi) :
              v \in {WalkUp(nd, w, lo, (lo + hi) \div 2)} } : TRUE

Reverse(s) == [i \in 1..Len(s) |-> s[Len(s) + 1 - i]]

\* lines 157-166
PathParts(nd, dirent) ==
    Reverse(WalkUp(nd, [pino |-> dirent.pino, path_parts |-> << >>, broke |-> FALSE],
                   1, WalkBound).path_parts)
        \o <<DecodeIgnore(dirent.name)>>

\* line 167
FullPath(nd, dirent, tgt) ==
    CHOOSE r \in { JoinAll(tgt, path_parts, 1, Len(path_parts)) :
                   path_parts \in {PathParts(nd, dirent)} } : TRUE

\* sorted(inodes) without the key: the fragments as they were scanned
UnsortedChunks(inodes) == inodes

\* line 185: sorted(dirent.inodes, key=lambda i: i.offset); the sort is stable
SortedChunks(inodes) ==
    LET n == Len(inodes)
        Rank(k) == 1 + Cardinality({j \in 1..n :
                          \/ inodes[j].offset < inodes[k].offset
                          \/ inodes[j].offset = inodes[k].offset /\ j < k})
    IN  [r \in 1..n |-> inodes[CHOOSE k \in 1..n : Rank(k) = r]]

\* the dirent and the fragment the loops are at
CurDirent == node_dict[fs.dirents[di].ino]
CurInode == CurDirent.inodes[ii]

Begin == [h |-> hostFs, ev |-> << >>, exc |-> ""]

\* what a round of the inner loop leaves: the file system and the record of its
\* changes, each with the dirent and the fragment it was made for
Leave(st) ==
    /\ hostFs' = st.h
    /\ log' = log \o [k \in 1..Len(st.ev) |->
                        [d |-> di, i |-> ii, op |-> st.ev[k].op, loc |-> st.ev[k].loc]]

\* lines 150-153
DumpStart ==
    /\ dpc = "begin"
    /\ node_dict' = NodeDict(fs)
    /\ di' = 1
    /\ dpc' = "dirent"
    /\ UNCHANGED <<hostFs, target, ii, full_path, log>>
    /\ UNCHANGED <<checks, scanVars, padVars>>

\* line 155: the dirents are exhausted
DumpEnd ==
    /\ dpc = "dirent"
    /\ di > Len(fs.dirents)
    /\ dpc' = "done"
    /\ UNCHANGED <<hostFs, target, node_dict, di, ii, full_path, log>>
    /\ UNCHANGED <<checks, scanVars, padVars>>

\* lines 155-171: the path of the dirent is unsafe and the dirent is skipped
DumpUnsafe ==
    /\ dpc = "dirent"
    /\ di <= Len(fs.dirents)
    /\ \E p \in {FullPath(node_dict, CurDirent, target)} :
          /\ ~RealpathRaises(p)
          /\ ~is_safe_path(hostFs, target, p)
          /\ full_path' = p
          /\ checks' = Append(checks, [d |-> di, safe |-> FALSE, at |-> Len(log)])
    /\ di' = di + 1
    /\ UNCHANGED <<hostFs, target, node_dict, ii, dpc, log>>
    /\ UNCHANGED <<scanVars, padVars>>

\* lines 155-169: os.path.realpath raises in is_safe_path, which is called
\* outside the try block; the exception leaves dump_fs
DumpRaise ==
    /\ dpc = "dirent"
    /\ di <= Len(fs.dirents)
    /\ \E p \in {FullPath(node_dict, CurDirent, target)} :
          /\ RealpathRaises(p)
          /\ full_path' = p
    /\ dpc' = "raised"
    /\ UNCHANGED <<hostFs, target, node_dict, di, ii, log>>
    /\ UNCHANGED <<checks, scanVars, padVars>>

\* DumpSafe entering the loop over the fragments whatever is_safe_path returned
DumpSafeAnyway ==
    /\ dpc = "dirent"
    /\ di <= Len(fs.dirents)
    /\ \E p \in {FullPath(node_dict, CurDirent, target)} :
          /\ ~RealpathRaises(p)
          /\ full_path' = p
          /\ checks' = Append(checks, [d |-> di, safe |-> is_safe_path(hostFs, target, p),
                                       at |-> Len(log)])
    /\ ii' = 1
    /\ dpc' = "inode"
    /\ UNCHANGED <<hostFs, target, node_dict, di, log>>
    /\ UNCHANGED <<scanVars, padVars>>

\* lines 155-173: the path is safe and the loop over the fragments starts
DumpSafe ==
    /\ dpc = "dirent"
    /\ di <= Len(fs.dirents)
    /\ \E p \in {FullPath(node_dict, CurDirent, target)} :
          /\ ~RealpathRaises(p)
          /\ is_safe_path(hostFs, target, p)
          /\ full_path' = p
          /\ checks' = Append(checks, [d |-> di, safe |-> TRUE, at |-> Len(log)])
    /\ ii' = 1
    /\ dpc' = "inode"
    /\ UNCHANGED <<hostFs, target, node_dict, di, log>>
    /\ UNCHANGED <<scanVars, padVars>>

\* line 173: the fragments are exhausted
DumpNoMore ==
    /\ dpc = "inode"
    /\ ii > Len(CurDirent.inodes)
    /\ di' = di + 1
    /\ dpc' = "dirent"
    /\ UNCHANGED <<hostFs, target, node_dict, ii, full_path, log>>
    /\ UNCHANGED <<checks, scanVars, padVars>>

\* lines 176-182, and 205-206 when an operation raises
DumpDir ==
    /\ dpc = "inode"
    /\ ii <= Len(CurDirent.inodes)
    /\ S_ISDIR(CurInode.mode)
    /\ \E s1 \in { IF Exists(hostFs, full_path) /\ ~IsDir(hostFs, full_path)
                   THEN Remove(Begin, full_path) ELSE Begin } :
       \E s2 \in { IF s1.exc = "" /\ ~IsDir(s1.h, full_path)
                   THEN Makedirs(s1, full_path) ELSE s1 } :
          Leave(s2)
    /\ ii' = ii + 1
    /\ UNCHANGED <<target, node_dict, di, full_path, dpc>>
    /\ UNCHANGED <<checks, scanVars, padVars>>

\* lines 183-197, and 205-206 when an operation raises: the break is reached
\* when none does
DumpReg ==
    /\ dpc = "inode"
    /\ ii <= Len(CurDirent.inodes)
    /\ S_ISREG(CurInode.mode)
    /\ \E chunks \in {SortedChunks(CurDirent.inodes)} :
       \E s1 \in {ensure_dir(Begin, Dirname(full_path))} :
       \E s2 \in {OpenWrite(s1, full_path, chunks)} :
       \E s3 \in {Chmod(s2, full_path, S_IMODE(CurInode.mode))} :
          /\ Leave(s3)
          /\ IF s3.exc = ""
             THEN di' = di + 1 /\ dpc' = "dirent" /\ ii' = ii
             ELSE di' = di /\ dpc' = dpc /\ ii' = ii + 1
    /\ UNCHANGED <<target, node_dict, full_path>>
    /\ UNCHANGED <<checks, scanVars, padVars>>

\* lines 198-202, and 205-206 when os.symlink raises
DumpLnk ==
    /\ dpc = "inode"
    /\ ii <= Len(CurDirent.inodes)
    /\ S_ISLNK(CurInode.mode)
    /\ IF Exists(hostFs, full_path)
       THEN Leave(Begin)
       ELSE Leave(Symlink(Begin, FsDecode(CurInode.data), full_path))
    /\ ii' = ii + 1
    /\ UNCHANGED <<target, node_dict, di, full_path, dpc>>
    /\ UNCHANGED <<checks, scanVars, padVars>>

\* lines 203-204
DumpOther ==
    /\ dpc = "inode"
    /\ ii <= Len(CurDirent.inodes)
    /\ ~S_ISDIR(CurInode.mode) /\ ~S_ISREG(CurInode.mode) /\ ~S_ISLNK(CurInode.mode)
    /\ ii' = ii + 1
    /\ UNCHANGED <<hostFs, target, node_dict, di, full_path, dpc, log>>
    /\ UNCHANGED <<checks, scanVars, padVars>>

-----------------------------------------------------------------------------
(* The aggregates dump_fs is given.  Each is what scan_fs builds of up to       *)
(* MaxItems nodes of DumpItems, laid one after another in an image.            *)

MaxItems == 3

\* a node of an image: its length with the padding, and what unpack gives of it
DirentItem(node) ==
    [kind |-> "dirent", len |-> PAD(Len(node)), rec |-> DirentUnpack(node, 0)]
InodeItem(node) ==
    [kind |-> "inode", len |-> PAD(Len(node)), rec |-> InodeUnpack(node)]

DumpItems ==
    << \* "a" in the root, ino 2
       DirentItem(MkDirent(1, 1, 2, <<97>>, 4, 41, TRUE, TRUE)),
       \* a name that is the byte 0, in the root, ino 4
       DirentItem(MkDirent(1, 1, 4, <<0>>, 8, 41, TRUE, TRUE)),
       \* "b" in the directory of ino 2, ino 3
       DirentItem(MkDirent(2, 1, 3, <<98>>, 8, 41, TRUE, TRUE)),
       \* "c", ino 3, whose parent is itself
       DirentItem(MkDirent(3, 2, 3, <<99>>, 8, 41, TRUE, TRUE)),
       \* "../e" in the root, ino 3
       DirentItem(MkDirent(1, 3, 3, <<46, 46, 47, 101>>, 8, 44, TRUE, TRUE)),
       \* ino 2 as a directory
       InodeItem(MkInode(2, 1, ModeDir, 0, 0, 0, 0, JFFS2_COMPR_NONE, << >>, 68, TRUE)),
       \* ino 2 as a regular file: "abc" at offset 0
       InodeItem(MkInode(2, 2, ModeReg, 3, 0, 3, 3, JFFS2_COMPR_NONE,
                         <<97, 98, 99>>, 71, TRUE)),
       \* ino 2 as a regular file: "x" at offset 2, stored uncompressed with
       \* csize 1 and dsize 3
       InodeItem(MkInode(2, 3, ModeReg, 5, 2, 1, 3, JFFS2_COMPR_NONE,
                         <<120>>, 69, TRUE)),
       \* ino 2 as a symbolic link to "/ext/f"
       InodeItem(MkInode(2, 1, ModeLnk, 6, 0, 6, 6, JFFS2_COMPR_NONE,
                         <<47, 101, 120, 116, 47, 102>>, 74, TRUE)),
       \* ino 2 as a FIFO
       InodeItem(MkInode(2, 1, ModeFifo, 0, 0, 0, 0, JFFS2_COMPR_NONE, << >>, 68, TRUE)),
       \* ino 3 as a regular file: "ef" at offset 2
       InodeItem(MkInode(3, 1, ModeReg, 4, 2, 2, 2, JFFS2_COMPR_NONE,
                         <<101, 102>>, 70, TRUE)) >>

\* what scan_fs stores of the item at offset at
Stored(f, item, at) ==
    IF item.kind = "dirent"
    THEN [f EXCEPT !.dirents = StoreDirent(@, [item.rec EXCEPT !.node_offset = at])]
    ELSE [f EXCEPT !.inodes = StoreInode(@, item.rec)]

\* the aggregate of the image made of the items picks[i..], the first at offset at
RECURSIVE Scanned(_, _, _, _, _)
Scanned(f, items, picks, i, at) ==
    IF i > Len(picks) THEN f
    ELSE CHOOSE r \in
            { Scanned(g, items, picks, i + 1, at + items[picks[i]].len) :
              g \in {Stored(f, items[picks[i]], at)} } : TRUE

Aggregates(items) ==
    { Scanned([dirents |-> << >>, inodes |-> << >>], items, picks, 1, 0) :
        picks \in UNION { [1..n -> 1..Len(items)] : n \in 0..MaxItems } }

\* main, lines 255-259: the output directory exists when dump_fs starts; "ext"
\* is a directory of the host beside the working directory
HostAtStart ==
    [l \in {<< >>, <<"w">>, <<"w", "out">>, <<"ext">>} |-> DirObj]

\* out_dir as the command line gives it: relative, or absolute
Targets == { <<"out">>, <<"", "w", "out">> }

\* scan_fs, lines 210-214
Init ==
    /\ crcTable = [crc |-> CrcTableValue, xor |-> XorTableValue]
    /\ \E pal \in {Palette}, tails \in {Tails} : content \in Images(pal, tails)
    /\ pos = 0
    /\ unknown = << >>
    /\ spc = "find"
    /\ fs = [dirents |-> << >>, inodes |-> << >>]
    /\ accepted = {}
    /\ rejected = {}
    /\ hostFs = HostAtStart
    /\ target = <<"out">>
    /\ node_dict = << >>
    /\ di = 0
    /\ ii = 0
    /\ full_path = <<"">>
    /\ dpc = "idle"
    /\ log = << >>
    /\ checks = << >>
    /\ pad = PadIdle

Next ==
    \/ ScanEnd
    \/ ScanFind
    \/ ScanBadHeader
    \/ ScanDirent
    \/ ScanInode
    \/ ScanOther
    \/ ScanRaiseHeader
    \/ ScanRaiseBody

vars == <<scanVars, dumpVars, padVars>>

Spec == Init /\ [][Next]_vars

\* scan_fs on the images with compressed payloads
InitCodec ==
    /\ crcTable = [crc |-> CrcTableValue, xor |-> XorTableValue]
    /\ \E pal \in {CodecPalette}, tails \in {Tails} : content \in Images(pal, tails)
    /\ pos = 0
    /\ unknown = << >>
    /\ spc = "find"
    /\ fs = [dirents |-> << >>, inodes |-> << >>]
    /\ accepted = {}
    /\ rejected = {}
    /\ hostFs = HostAtStart
    /\ target = <<"out">>
    /\ node_dict = << >>
    /\ di = 0
    /\ ii = 0
    /\ full_path = <<"">>
    /\ dpc = "idle"
    /\ log = << >>
    /\ checks = << >>
    /\ pad = PadIdle

SpecCodec == InitCodec /\ [][Next]_vars

\* PAD called with an argument of the 32-bit range
InitPad ==
    /\ crcTable = [crc |-> CrcTableValue, xor |-> XorTableValue]
    /\ content = << >>
    /\ pos = 0
    /\ unknown = << >>
    /\ spc = "done"
    /\ fs = [dirents |-> << >>, inodes |-> << >>]
    /\ accepted = {}
    /\ rejected = {}
    /\ hostFs = HostAtStart
    /\ target = <<"out">>
    /\ node_dict = << >>
    /\ di = 0
    /\ ii = 0
    /\ full_path = <<"">>
    /\ dpc = "idle"
    /\ log = << >>
    /\ checks = << >>
    /\ \E w \in PadInputs : pad = [PadIdle EXCEPT !.x = w]

NextPad == PadCall

SpecPad == InitPad /\ [][NextPad]_vars

\* main, line 264: dump_fs is entered with the aggregate of a scanned image
InitDump ==
    /\ crcTable = [crc |-> CrcTableValue, xor |-> XorTableValue]
    /\ \E items \in {DumpItems} : fs \in Aggregates(items)
    /\ content = << >>
    /\ pos = 0
    /\ unknown = << >>
    /\ spc = "done"
    /\ accepted = {}
    /\ rejected = {}
    /\ hostFs = HostAtStart
    /\ target \in Targets
    /\ node_dict = << >>
    /\ di = 0
    /\ ii = 0
    /\ full_path = <<"">>
    /\ dpc = "begin"
    /\ log = << >>
    /\ checks = << >>
    /\ pad = PadIdle

NextDump ==
    \/ DumpStart
    \/ DumpEnd
    \/ DumpUnsafe
    \/ DumpRaise
    \/ DumpSafe
    \/ DumpNoMore
    \/ DumpDir
    \/ DumpReg
    \/ DumpLnk
    \/ DumpOther

SpecDump == InitDump /\ [][NextDump]_vars

-----------------------------------------------------------------------------
(* Properties of scan_fs *)

AcceptedDirents == {a \in accepted : a.kind = "dirent"}
AcceptedInodes == {a \in accepted : a.kind = "inode"}

\* C2 (version monotonicity): for each target ino of an accepted dirent node, the
\* dirent stored in fs['dirents'] has the maximum version among the accepted
\* dirents of that ino, and among those of that version it is the first one
\* scanned: a later dirent replaces the stored one only when the stored version
\* is strictly lower.
VersionMonotonicity ==
    \A a \in AcceptedDirents :
        LET same  == {b \in AcceptedDirents : b.rec.ino = a.rec.ino}
            top   == Max({b.rec.version : b \in same})
            first == Min({b.at : b \in {c \in same : c.rec.version = top}})
            k     == KeyIndex(fs.dirents, a.rec.ino)
        IN  /\ k # 0
            /\ fs.dirents[k].version = top
            /\ fs.dirents[k].node_offset = first

\* the scan has finished on an image in which a dirent of some ino is followed by
\* one of a higher version, and by one of the same or a lower version
VersionReplaced ==
    /\ spc = "done"
    /\ \E a, b, c \in AcceptedDirents :
        /\ a.rec.ino = b.rec.ino /\ a.at < b.at /\ a.rec.version < b.rec.version
        /\ c.rec.ino = b.rec.ino /\ b.at < c.at /\ c.rec.version <= b.rec.version

\* C3 (totlen of accepted nodes): every node the scan has parsed or passed over
\* has header_size <= totlen and at + totlen <= image_len.
TotlenInRange ==
    \A a \in accepted : HeaderSize <= a.totlen /\ a.at + a.totlen <= Len(content)

\* C5 (the scanner never aborts on a bad node): scan_fs never raises.
ScanNeverRaises == spc # "raised"

\* whether the 12 bytes at offset o are a header: a magic, and a matching CRC
ValidHeaderAt(o) ==
    /\ o + HeaderSize <= Len(content)
    /\ LE16(content, o) \in {JFFS2_MAGIC_BITMASK, JFFS2_OLD_MAGIC_BITMASK}
    /\ mtd_crc(Slice(content, o, o + HeaderSize - 4)) = Slice(content, o + 8, o + HeaderSize)

\* every header of the image is that of a node the scan took, or lies inside the
\* span of one
AllNodesFound ==
    \A o \in 0 .. Len(content) - HeaderSize :
        ValidHeaderAt(o) =>
            \E a \in accepted : a.at <= o /\ (a.at = o \/ o < a.at + PAD(a.totlen))

\* C6 (byte-granular resync): when the header at the magic found does not match
\* its CRC, the step adds nothing to the aggregate and the search resumes at
\* exactly pos + 1; and when the scan returns, every node with a matching header
\* that is not inside the span of a node taken before it has been taken.
ResyncByOneByte ==
    [][ /\ (spc = "node" /\ ~unknown.hdr_crc_match)
            => (fs' = fs /\ accepted' = accepted /\ pos' = pos + 1 /\ spc' = "find")
        /\ (spc' = "done" => AllNodesFound') ]_scanVars

\* the scan has finished, and took a node that starts 2 bytes after a magic whose
\* header CRC failed
ResyncFoundNode ==
    /\ spc = "done"
    /\ \E r \in rejected : \E a \in accepted : a.at = r + 2 /\ a.kind # "other"

\* C7 (header CRC is the only gate): a dirent or inode node whose header CRC
\* matches is entered into the aggregate, and the record carries the flags that
\* tell whether its body CRCs match.
HeaderCrcOnlyGate ==
    /\ ~(spc = "raised" /\ unknown # << >>)
    /\ \A a \in AcceptedDirents :
        {"node_crc_match", "name_crc_match"} \subseteq DOMAIN a.rec
    /\ \A a \in AcceptedInodes :
        {"node_crc_match", "data_crc_match"} \subseteq DOMAIN a.rec

\* C10 (deletion dirents): no dirent with ino = 0 is retained, and a retained
\* dirent has no later deletion dirent of its (pino, name) in the image.
DeletionsDropped ==
    /\ \A k \in 1..Len(fs.dirents) : fs.dirents[k].ino # 0
    /\ \A k \in 1..Len(fs.dirents) :
        ~\E a \in AcceptedDirents :
            /\ a.rec.ino = 0
            /\ a.rec.pino = fs.dirents[k].pino
            /\ a.rec.name = fs.dirents[k].name
            /\ a.at > fs.dirents[k].node_offset

\* the compressed payload of the accepted inode node a, as unpack slices it
PayloadOf(a) ==
    Slice(Slice(content, a.at, a.at + a.totlen), InodeSize, InodeSize + a.rec.csize)

\* the accepted inode nodes whose codec rejected the payload
FailedInodes ==
    {a \in AcceptedInodes : CodecFails(a.rec.compr, PayloadOf(a), a.rec.dsize)}

\* C13 (decompression failure policy): when the codec selected by compr fails
\* on the payload of an inode node, the data of the fragment is exactly dsize
\* zero bytes, the fragment is in fragments[ino], and the scan has gone on past
\* the node without raising there.
DecompressFailureZeroFill ==
    \A a \in FailedInodes :
        /\ a.rec.data = Zeros(a.rec.dsize)
        /\ a.rec.ino \in DOMAIN fs.inodes
        /\ \E k \in 1..Len(fs.inodes[a.rec.ino]) : fs.inodes[a.rec.ino][k] = a.rec
        /\ pos >= a.at + PAD(a.totlen)

\* the scan has returned, zlib rejected the payload of an inode node of dsize 3,
\* lzo that of another, and a node after each was taken
DecompressFailedAndWentOn ==
    /\ spc = "done"
    /\ \E a, b \in FailedInodes :
        /\ a.rec.compr = JFFS2_COMPR_ZLIB /\ a.rec.dsize > 0
        /\ b.rec.compr = JFFS2_COMPR_LZO
        /\ \E c \in accepted : c.at > a.at /\ c.at > b.at

\* C17 (scan termination): every iteration of the loop of scan_fs that goes on
\* to the next search leaves pos strictly greater than the position at which
\* its magic was found, by 1 when the header CRC fails and by PAD(totlen)
\* otherwise, a node with a matching header CRC and totlen 0 included.
CursorAdvances ==
    [][ (spc = "node" /\ spc' = "find") =>
            /\ pos' > pos
            /\ pos' = pos + (IF unknown.hdr_crc_match THEN PAD(unknown.totlen) ELSE 1)
      ]_scanVars

-----------------------------------------------------------------------------
(* Properties of dump_fs, checked under SpecDump *)

\* the canonical output root
OutputRoot == Realpath(hostFs, target)

\* C1: every object dump_fs created, wrote or removed lies at a location (the
\* canonical form of its path) at or below the canonical output root, also for
\* a dirent whose fragments have more than one mode.
PathContainment ==
    \A k \in 1..Len(log) : IsPrefix(OutputRoot, log[k].loc)

\* the fragments the file of the dirent of index d was written from
FragmentsOf(d) == InodesOf(fs.inodes, fs.dirents[d].ino)

\* the fragments of fr whose bytes offset .. offset + size - 1 hold byte i
Covering(fr, size, i) ==
    {k \in 1..Len(fr) : fr[k].offset <= i /\ i < fr[k].offset + size[k]}

\* of the fragments S, those of the largest offset
Topmost(fr, S) == {k \in S : \A j \in S : fr[j].offset <= fr[k].offset}

\* the state right after a regular file was written: the last change is the
\* chmod of line 196
FileWritten == log # << >> /\ log[Len(log)].op = "chmod"

\* C4, as it holds: when a regular file has been written from the fragments of
\* one ino, byte i of the file is the payload byte of the fragment with the
\* largest offset <= i whose offset + len(data) > i (the last scanned of them
\* when several share that offset), a byte no fragment covers is zero, and the
\* file ends where the furthest payload ends.
FragmentReassembly ==
    FileWritten =>
        LET file == hostFs[log[Len(log)].loc].data
            fr   == FragmentsOf(log[Len(log)].d)
            size == [k \in 1..Len(fr) |-> Len(fr[k].data)]
        IN  /\ Len(file) = Max({0} \cup {fr[k].offset + size[k] :
                                            k \in {j \in 1..Len(fr) : size[j] > 0}})
            /\ \A i \in 0 .. Len(file) - 1 :
                  LET S == Covering(fr, size, i)
                  IN  IF S = {} THEN file[i + 1] = 0
                      ELSE LET k == Max(Topmost(fr, S))
                           IN  file[i + 1] = fr[k].data[i - fr[k].offset + 1]

\* C4's case: a file written from two fragments that overlap, the one of the
\* larger offset scanned first, and from a fragment that leaves a gap
ReassembledOverlap ==
    /\ FileWritten
    /\ LET fr == FragmentsOf(log[Len(log)].d)
       IN  \E j, k \in 1..Len(fr) :
              /\ j < k
              /\ fr[k].offset < fr[j].offset
              /\ fr[j].offset < fr[k].offset + Len(fr[k].data)
              /\ Len(fr[j].data) > 0

\* C4, as the specification words it: byte i of the file is the payload byte of
\* a fragment with the largest offset <= i whose offset + dsize > i, and a byte
\* no fragment covers so is zero.
FragmentReassemblyDsize ==
    FileWritten =>
        LET file == hostFs[log[Len(log)].loc].data
            fr   == FragmentsOf(log[Len(log)].d)
            size == [k \in 1..Len(fr) |-> fr[k].dsize]
            end  == Max({Len(file)} \cup {fr[k].offset + size[k] : k \in 1..Len(fr)})
        IN  \A i \in 0 .. end - 1 :
                LET S == Covering(fr, size, i)
                IN  /\ i < Len(file)
                    /\ IF S = {} THEN file[i + 1] = 0
                       ELSE \E k \in Topmost(fr, S) :
                               /\ i - fr[k].offset < Len(fr[k].data)
                               /\ file[i + 1] = fr[k].data[i - fr[k].offset + 1]

\* the walk of lines 159-164 for the dirent of index d ends by the bound, no
\* absent parent having been found
Overflows(d) ==
    ~WalkUp(NodeDict(fs),
            [pino |-> fs.dirents[d].pino, path_parts |-> << >>, broke |-> FALSE],
            1, WalkBound).broke

\* C8: a dirent whose parent walk reaches the bound of 100 steps without finding
\* an absent parent is skipped: nothing is created for it.
OverflowSkipped ==
    \A d \in {log[k].d : k \in 1..Len(log)} : ~Overflows(d)

\* C9: what dump_fs does for a dirent is selected by the first fragment of its
\* ino; the later fragments trigger no further create or write action.
FirstFragmentOnly ==
    \A k \in 1..Len(log) : log[k].i = 1

\* the fragment of fr of the highest version (the last scanned of them)
LatestVersion(fr) ==
    Max({k \in 1..Len(fr) : \A j \in 1..Len(fr) : fr[j].version <= fr[k].version})

\* C11 (final file length): when a regular file has been written, its length is
\* the larger of the furthest offset + len(data) of its fragments and the isize
\* of the fragment of the latest version, and the bytes past the furthest
\* payload are zero.
FinalFileLength ==
    FileWritten =>
        LET file   == hostFs[log[Len(log)].loc].data
            fr     == FragmentsOf(log[Len(log)].d)
            extent == Max({0} \cup {fr[k].offset + Len(fr[k].data) : k \in 1..Len(fr)})
            isize  == fr[LatestVersion(fr)].isize
        IN  /\ Len(file) = Max({extent, isize})
            /\ \A i \in extent + 1 .. Len(file) : file[i] = 0

\* C12 (dirent without fragments): when dump_fs has returned, every retained
\* dirent whose ino has no fragment, whose type is that of a regular file
\* (DT_REG, 8) and whose path is inside the output root has an empty regular
\* file at its path; for a dirent of any other type without fragments nothing
\* was done.
EmptyFileForBareDirent ==
    dpc = "done" =>
        \A d \in 1..Len(fs.dirents) :
            FragmentsOf(d) = << >> =>
                LET p == FullPath(node_dict, node_dict[fs.dirents[d].ino], target)
                    r == Resolve(hostFs, p, TRUE)
                IN  IF fs.dirents[d].type = 8 /\ is_safe_path(hostFs, target, p)
                    THEN /\ ~r.err /\ r.exists
                         /\ hostFs[r.loc].kind = "file"
                         /\ hostFs[r.loc].data = << >>
                    ELSE \A k \in 1..Len(log) : log[k].d # d

\* C14 (the materializer never aborts on a single failed entry): dump_fs never
\* raises; whatever fails for one dirent, the loop goes on to the dirents that
\* follow it.
NoEntryAborts == dpc # "raised"

\* C15 (check before act): every change dump_fs made for a dirent was made
\* after is_safe_path had been evaluated for that dirent's full_path and had
\* returned True, and no change was made for a dirent whose check failed.
CheckBeforeAct ==
    /\ \A k \in 1..Len(log) :
          \E c \in 1..Len(checks) :
              checks[c].d = log[k].d /\ checks[c].safe /\ checks[c].at < k
    /\ \A c \in 1..Len(checks) :
          ~checks[c].safe => \A k \in 1..Len(log) : log[k].d # checks[c].d

\* dump_fs has returned; it changed the host for a dirent whose check had
\* passed, and the check failed for another dirent
CheckedThenActed ==
    /\ dpc = "done"
    /\ \E c \in 1..Len(checks) :
          checks[c].safe /\ \E k \in 1..Len(log) : log[k].d = checks[c].d
    /\ \E c \in 1..Len(checks) : ~checks[c].safe

\* the inner loop is at a fragment of a regular file: lines 185-188 are next
AtRegularFragment ==
    /\ dpc = "inode"
    /\ ii <= Len(CurDirent.inodes)
    /\ S_ISREG(CurInode.mode)

\* C18 (ancestor creation for regular files): when ensure_dir has returned and
\* dump_fs is about to open full_path, the directory part of full_path is a
\* directory at that path, for a relative and for an absolute output root, and
\* every entry ensure_dir created or removed lies at a prefix of the path it
\* was given.
AncestorsCreated ==
    AtRegularFragment =>
        LET dir == Dirname(full_path)
            st  == ensure_dir(Begin, dir)
        IN  st.exc = "" =>
                /\ IsDir(st.h, dir)
                /\ \A k \in 1..Len(st.ev) : IsPrefix(st.ev[k].loc, Realpath(st.h, dir))

-----------------------------------------------------------------------------
(* Properties of PAD, checked under SpecPad *)

\* PAD(x) - x, which is small whatever the size of x
PadGrowth == (pad.out.hi - pad.x.hi) * 65536 + (pad.out.lo - pad.x.lo)

\* C16 (padding): for n of the 32-bit range, PAD(n) >= n, PAD(n) mod 4 = 0 and
\* PAD(n) - n < 4.
PadProperties ==
    pad.called =>
        /\ PadGrowth >= 0
        /\ pad.out.lo % 4 = 0
        /\ PadGrowth < 4

\* PAD has returned for 2^32 - 3, whose padding is 2^32
PadCalledAtTop ==
    /\ pad.called
    /\ pad.x = [hi |-> 65535, lo |-> 65533]
    /\ pad.out = [hi |-> 65536, lo |-> 0]

=============================================================================
